---- MODULE Spec2Model ----
(***************************************************************************)
(* mongodb-queue (src/index.ts): a work queue kept in one MongoDB          *)
(* collection.  Every method of Queue reads the clock and builds its       *)
(* filter and update document synchronously; the store applies the single  *)
(* operation (insertOne, findOneAndUpdate, deleteMany, countDocuments)     *)
(* atomically at some later instant.  get is two steps here, CallGet (the  *)
(* synchronous part up to the await) and ApplyGet (the store's atomic step *)
(* and the rest of the handler), so that concurrent claims are states of   *)
(* the model.  The other handlers are one step each, taken at the instant  *)
(* the store applies the operation; the instant t <= clock at which the    *)
(* handler read the clock is a parameter of the step.                      *)
(*                                                                         *)
(* Timestamps are the strings Date.prototype.toISOString produces and the  *)
(* store compares them as strings.  A string of a four-digit year starts   *)
(* with a digit; from year 10000 on toISOString writes the expanded form   *)
(* "+010000-...", and "+" sorts before every digit.  A timestamp string is *)
(* modelled by the pair <<class, instant>> that decides its place in the   *)
(* string order.                                                           *)
(***************************************************************************)
EXTENDS Integers, FiniteSets, Sequences, TLC

VARIABLES clock, col, nextId, nextTok, call, last, grants, doneIds

vars == <<clock, col, nextId, nextTok, call, last, grants, doneIds>>

(* ------------------------------ bounds -------------------------------- *)
MaxClock == 1
MaxSecs == 1
MaxMsgs == 2
MaxTok == 3
NClients == 2

Clients == 1..NClients

\* Payloads are opaque to the queue, so up to renaming the first message carries "a".
Payloads(n) == IF n = 1 THEN {"a"} ELSE {"a", "b"}

(* ------------------------------ helpers ------------------------------- *)
\* The first instant toISOString writes with an expanded year ("+010000-01-01...").
\* The clock of the model stays below it; a large enough delay reaches it.
Y10K == MaxClock + MaxSecs + 1

\* A number of seconds that takes any instant of the model past Y10K.
Far == Y10K

\* The seconds a caller may pass as delay or visibility (any number is accepted).
Secs == (0..MaxSecs) \cup {Far}

\* Date.prototype.toISOString: the string of instant t, as its place in the
\* string order: class 0 ("+0YYYYY-...") sorts before class 1 ("YYYY-...").
toISOString(t) == IF t < Y10K THEN <<1, t>> ELSE <<0, t>>

\* The instant a timestamp string denotes.
Instant(s) == s[2]

\* The store's order on two timestamp strings: $lte and $gt on strings.
StrLte(a, b) == a[1] < b[1] \/ (a[1] = b[1] /\ a[2] <= b[2])

StrGt(a, b) == ~StrLte(a, b)

\* mutant: id() keeps returning the same token
IdConst(n) == 1

\* id(): 16 random bytes in hex; the n-th token drawn differs from the earlier ones.
id(n) == n

now(t) == toISOString(t)

nowPlusSecs(t, deltaInSeconds) == toISOString(t + deltaInSeconds)

\* A document with the fields of u set.
Set(d, u) == u @@ d

\* tries as the sort sees it: a missing field sorts before every number.
TriesKey(d) == IF "tries" \in DOMAIN d THEN d.tries ELSE 0

\* mutant: sort: { tries: 1, _id: -1 }
SortNewest(a, b) ==
    \/ TriesKey(a) < TriesKey(b)
    \/ TriesKey(a) = TriesKey(b) /\ a._id > b._id

\* mutant: sort: { _id: 1 }
SortById(a, b) == a._id < b._id

\* sort: { tries: 1, _id: 1 }
SortBefore(a, b) ==
    \/ TriesKey(a) < TriesKey(b)
    \/ TriesKey(a) = TriesKey(b) /\ a._id < b._id

First(S) == CHOOSE d \in S : \A e \in S \ {d} : SortBefore(d, e)

(* ------------------------------ filters ------------------------------- *)
\* mutant: the filter of get forgets visible: { $lte: now() }
GetQueryAnyVisible(d, n) == "deleted" \notin DOMAIN d

\* mutant: the filter of get forgets deleted: null
GetQueryAnyDeleted(d, n) == StrLte(d.visible, n)

\* get: { deleted: null, visible: { $lte: now() } }
GetQuery(d, n) == "deleted" \notin DOMAIN d /\ StrLte(d.visible, n)

\* mutant: the filter of ping and ack forgets visible: { $gt: now() }
LeaseQueryAnyVisible(d, a, n) ==
    /\ "ack" \in DOMAIN d
    /\ d.ack = a
    /\ "deleted" \notin DOMAIN d

\* mutant: the filter of ping and ack forgets deleted: null
LeaseQueryAnyDeleted(d, a, n) ==
    /\ "ack" \in DOMAIN d
    /\ d.ack = a
    /\ StrGt(d.visible, n)

\* ping and ack: { ack: ack, visible: { $gt: now() }, deleted: null }
LeaseQuery(d, a, n) ==
    /\ "ack" \in DOMAIN d
    /\ d.ack = a
    /\ StrGt(d.visible, n)
    /\ "deleted" \notin DOMAIN d

\* clean and done: { deleted: { $exists: true } }
DeletedQuery(d) == "deleted" \in DOMAIN d

\* mutant: the filter of inFlight forgets deleted: null
InFlightQueryAnyDeleted(d, n) ==
    /\ "ack" \in DOMAIN d
    /\ StrGt(d.visible, n)

\* inFlight: { ack: { $exists: true }, visible: { $gt: now() }, deleted: null }
InFlightQuery(d, n) ==
    /\ "ack" \in DOMAIN d
    /\ StrGt(d.visible, n)
    /\ "deleted" \notin DOMAIN d

(* ------------------------------ accessors ----------------------------- *)
total == Cardinality(col)

size(t) == Cardinality({d \in col : GetQuery(d, now(t))})

inFlight(t) == Cardinality({d \in col : InFlightQuery(d, now(t))})

done == Cardinality({d \in col : DeletedQuery(d)})

(* ------------------------------ state --------------------------------- *)
\* clock    the current instant
\* col      the collection: a set of documents, each a record of the fields it has
\* nextId   the _id the next inserted document gets (ids grow with insertion)
\* nextTok  the number of tokens id() has drawn, plus one
\* call     per client, its get call awaiting the store, or Idle
\* last     the handler that returned last: its arguments, ok (FALSE: it threw)
\*          and ret, the set holding what it returned (empty: null or nothing)
\* grants   history: what every successful get returned, and when
\* doneIds  history: the ids of the messages an ack completed
Idle == [st |-> "idle"]

Pending(c) == call[c] # Idle

\* mutant: the external representation of the document before the update (tries not yet incremented)
ExternalBefore(d) == [id |-> d._id, ack |-> d.ack, payload |-> d.payload, tries |-> d.tries - 1]

\* What get hands to its caller: { id, ack, payload, tries }.
External(d) == [id |-> d._id, ack |-> d.ack, payload |-> d.payload, tries |-> d.tries]

Init ==
    /\ clock = 0
    /\ col = {}
    /\ nextId = 1
    /\ nextTok = 1
    /\ call = [c \in Clients |-> Idle]
    /\ last = [op |-> "none"]
    /\ grants = {}
    /\ doneIds = {}

Tick ==
    /\ clock < MaxClock
    /\ clock' = clock + 1
    /\ UNCHANGED <<col, nextId, nextTok, call, last, grants, doneIds>>

\* The instants at which a handler returning now may have read the clock.
Reads == 0..clock

(* ------------------------------ add ----------------------------------- *)
add(p, delay, t) ==
    /\ nextId <= MaxMsgs
    /\ LET visible == IF delay # 0 THEN nowPlusSecs(t, delay) ELSE now(t)
           d == [_id |-> nextId, visible |-> visible, payload |-> p]
       IN /\ col' = col \cup {d}
          /\ last' = [op |-> "add", ok |-> TRUE, ret |-> {d._id}]
    /\ nextId' = nextId + 1
    /\ UNCHANGED <<clock, nextTok, call, grants, doneIds>>

(* ------------------------------ get ----------------------------------- *)
CallGet(c, visibility) ==
    /\ call[c] = Idle
    /\ nextTok <= MaxTok
    /\ call' = [call EXCEPT ![c] =
                  [st |-> "get", now |-> now(clock), ack |-> id(nextTok),
                   visible |-> nowPlusSecs(clock, visibility), rivals |-> {}]]
    /\ nextTok' = nextTok + 1
    /\ UNCHANGED <<clock, col, nextId, last, grants, doneIds>>

\* The documents the filter of get matches.
GetMatches(r) == {d \in col : GetQuery(d, r.now)}

\* mutant: $set: { tries: 1 } in place of $inc
GetUpdateSetsTries(d, r) == Set(d, [tries |-> 1, ack |-> r.ack, visible |-> r.visible])

\* mutant: a document that has an ack keeps it
GetUpdateKeepsAck(d, r) ==
    Set(d, [tries |-> TriesKey(d) + 1,
            ack |-> IF "ack" \in DOMAIN d THEN d.ack ELSE r.ack,
            visible |-> r.visible])

\* $inc: { tries: 1 }, $set: { ack, visible }
GetUpdate(d, r) == Set(d, [tries |-> TriesKey(d) + 1, ack |-> r.ack, visible |-> r.visible])

\* The unique sparse index on ack refuses a second document with the same ack.
AckTaken(d, a) == \E e \in col \ {d} : "ack" \in DOMAIN e /\ e.ack = a

\* History: the calls still awaiting the store learn that message m went to a rival.
NoteRival(c, m) ==
    [k \in Clients |->
        IF k = c THEN Idle
        ELSE IF Pending(k) THEN [call[k] EXCEPT !.rivals = @ \cup {m}]
        ELSE call[k]]

ApplyGet(c) ==
    /\ Pending(c)
    /\ LET r == call[c]
           S == GetMatches(r)
       IN IF S = {} \/ AckTaken(First(S), r.ack)
          THEN /\ call' = [call EXCEPT ![c] = Idle]
               /\ last' = [op |-> "get", now |-> r.now, rivals |-> r.rivals, ok |-> (S = {}), ret |-> {}]
               /\ UNCHANGED <<col, grants>>
          ELSE LET d == First(S)
                   u == GetUpdate(d, r)
               IN /\ col' = (col \ {d}) \cup {u}
                  /\ call' = NoteRival(c, d._id)
                  /\ last' = [op |-> "get", now |-> r.now, rivals |-> r.rivals, ok |-> TRUE,
                               ret |-> {External(u)}]
                  /\ grants' = grants \cup {[msg |-> External(u), at |-> clock]}
    /\ UNCHANGED <<clock, nextId, nextTok, doneIds>>

\* The call passed maxTimeMS and the store hit that limit before it had applied the
\* operation: findOneAndUpdate rejects (MaxTimeMSExpired), get has no catch around the
\* await, so the call throws; nothing is updated.  (Whether a call passed maxTimeMS is
\* not recorded: any call awaiting the store may be one that did.)
ExpireGet(c) ==
    /\ Pending(c)
    /\ call' = [call EXCEPT ![c] = Idle]
    /\ last' = [op |-> "get", now |-> call[c].now, rivals |-> call[c].rivals,
                ok |-> FALSE, ret |-> {}]
    /\ UNCHANGED <<clock, col, nextId, nextTok, grants, doneIds>>

(* ------------------------------ ping ---------------------------------- *)
\* The tokens a caller may pass at instant t: 0, which get never returns, or one
\* a get had returned by then.
Tokens(t) == {0} \cup {g.msg.ack : g \in {h \in grants : h.at <= t}}

\* The documents the filter of ping and of ack matches.
LeaseMatches(a, n) == {d \in col : LeaseQuery(d, a, n)}

\* mutant: ping adds visibility to the stored visible in place of now()
pingExtendsStored(a, visibility, t) ==
    /\ LET S == LeaseMatches(a, now(t))
       IN IF S = {}
          THEN /\ last' = [op |-> "ping", ack |-> a, now |-> now(t), ok |-> FALSE, ret |-> {}]
               /\ col' = col
          ELSE LET d == First(S)
                   u == Set(d, [visible |-> toISOString(Instant(d.visible) + visibility)])
               IN /\ col' = (col \ {d}) \cup {u}
                  /\ last' = [op |-> "ping", ack |-> a, now |-> now(t), ok |-> TRUE, ret |-> {u._id}]
    /\ UNCHANGED <<clock, nextId, nextTok, call, grants, doneIds>>

\* mutant: the update of ping has $inc: { tries: 1 } as well
pingIncTries(a, visibility, t) ==
    /\ LET S == LeaseMatches(a, now(t))
       IN IF S = {}
          THEN /\ last' = [op |-> "ping", ack |-> a, now |-> now(t), ok |-> FALSE, ret |-> {}]
               /\ col' = col
          ELSE LET d == First(S)
                   u == Set(d, [visible |-> nowPlusSecs(t, visibility), tries |-> TriesKey(d) + 1])
               IN /\ col' = (col \ {d}) \cup {u}
                  /\ last' = [op |-> "ping", ack |-> a, now |-> now(t), ok |-> TRUE, ret |-> {u._id}]
    /\ UNCHANGED <<clock, nextId, nextTok, call, grants, doneIds>>

ping(a, visibility, t) ==
    /\ LET S == LeaseMatches(a, now(t))
       IN IF S = {}
          THEN /\ last' = [op |-> "ping", ack |-> a, now |-> now(t), ok |-> FALSE, ret |-> {}]
               /\ col' = col
          ELSE LET d == First(S)
                   u == Set(d, [visible |-> nowPlusSecs(t, visibility)])
               IN /\ col' = (col \ {d}) \cup {u}
                  /\ last' = [op |-> "ping", ack |-> a, now |-> now(t), ok |-> TRUE, ret |-> {u._id}]
    /\ UNCHANGED <<clock, nextId, nextTok, call, grants, doneIds>>

(* ------------------------------ ack ----------------------------------- *)
\* mutant: the update of ack has $unset: { ack: 1 } as well
ackUnsetsAck(a, t) ==
    /\ LET S == LeaseMatches(a, now(t))
       IN IF S = {}
          THEN /\ last' = [op |-> "ack", ack |-> a, now |-> now(t), ok |-> FALSE, ret |-> {}]
               /\ UNCHANGED <<col, doneIds>>
          ELSE LET d == First(S)
                   u == [k \in (DOMAIN d \ {"ack"}) \cup {"deleted"} |->
                            IF k = "deleted" THEN now(t) ELSE d[k]]
               IN /\ col' = (col \ {d}) \cup {u}
                  /\ doneIds' = doneIds \cup {d._id}
                  /\ last' = [op |-> "ack", ack |-> a, now |-> now(t), ok |-> TRUE, ret |-> {u._id}]
    /\ UNCHANGED <<clock, nextId, nextTok, call, grants>>

ack(a, t) ==
    /\ LET S == LeaseMatches(a, now(t))
       IN IF S = {}
          THEN /\ last' = [op |-> "ack", ack |-> a, now |-> now(t), ok |-> FALSE, ret |-> {}]
               /\ UNCHANGED <<col, doneIds>>
          ELSE LET d == First(S)
                   u == Set(d, [deleted |-> now(t)])
               IN /\ col' = (col \ {d}) \cup {u}
                  /\ doneIds' = doneIds \cup {d._id}
                  /\ last' = [op |-> "ack", ack |-> a, now |-> now(t), ok |-> TRUE, ret |-> {u._id}]
    /\ UNCHANGED <<clock, nextId, nextTok, call, grants>>

(* ------------------------------ clean --------------------------------- *)
\* mutant: clean deletes what has been claimed: { ack: { $exists: true } }
cleanClaimed ==
    /\ col' = {d \in col : "ack" \notin DOMAIN d}
    /\ last' = [op |-> "clean", ok |-> TRUE, ret |-> {}]
    /\ UNCHANGED <<clock, nextId, nextTok, call, grants, doneIds>>

\* mutant: deleteOne in place of deleteMany
cleanOne ==
    /\ \/ \E d \in col : DeletedQuery(d) /\ col' = col \ {d}
       \/ done = 0 /\ col' = col
    /\ last' = [op |-> "clean", ok |-> TRUE, ret |-> {}]
    /\ UNCHANGED <<clock, nextId, nextTok, call, grants, doneIds>>

clean ==
    /\ col' = {d \in col : ~DeletedQuery(d)}
    /\ last' = [op |-> "clean", ok |-> TRUE, ret |-> {}]
    /\ UNCHANGED <<clock, nextId, nextTok, call, grants, doneIds>>

(* ------------------------------ system -------------------------------- *)
Next ==
    \/ Tick
    \/ \E p \in Payloads(nextId), delay \in Secs, t \in Reads : add(p, delay, t)
    \/ \E c \in Clients, visibility \in Secs : CallGet(c, visibility)
    \/ \E c \in Clients : ApplyGet(c)
    \/ \E c \in Clients : ExpireGet(c)
    \/ \E t \in Reads : \E a \in Tokens(t), visibility \in Secs : ping(a, visibility, t)
    \/ \E t \in Reads : \E a \in Tokens(t) : ack(a, t)
    \/ clean

Spec == Init /\ [][Next]_vars

(* ------------------------------ liveness ------------------------------ *)
\* The queue in use by a producer and consumers that claim and complete: a consumer
\* calls get when a message is available, no get is awaiting the store and no
\* consumer holds a lease (a message it was handed, not completed, the visibility it
\* passed not yet elapsed), with a visibility that leaves it time to complete (more
\* than 0), and passes no maxTimeMS; ping and ack are called with a token get has
\* returned, at the instant the handler read the clock; a delay is one that elapses
\* while the clock of the model runs, or one that takes visible past year 9999.
LiveDelays == {s \in Secs : clock + s <= MaxClock \/ s = Far}

LiveVisibilities == Secs \ {0}

\* Message d is held: a get has handed it out, it is not completed and the
\* visibility passed has not elapsed.
Held(d) == "ack" \in DOMAIN d /\ "deleted" \notin DOMAIN d /\ Instant(d.visible) > clock

LiveClaim(c, visibility) ==
    /\ \A k \in Clients : call[k] = Idle
    /\ \A d \in col : ~Held(d)
    /\ size(clock) > 0
    /\ CallGet(c, visibility)

\* An ack that succeeds.
AckOk == \E a \in Tokens(clock) : ack(a, clock) /\ last'.ok

NextLive ==
    \/ Tick
    \/ \E p \in Payloads(nextId), delay \in LiveDelays : add(p, delay, clock)
    \/ \E c \in Clients, visibility \in LiveVisibilities : LiveClaim(c, visibility)
    \/ \E c \in Clients : ApplyGet(c)
    \/ \E a \in Tokens(clock), visibility \in LiveVisibilities : ping(a, visibility, clock)
    \/ \E a \in Tokens(clock) : ack(a, clock)
    \/ clean

\* The clock advances; the store applies every operation it was sent; consumers keep
\* claiming while a message is available, and complete a lease that stays running.
SpecLive ==
    /\ Init
    /\ [][NextLive]_vars
    /\ WF_vars(Tick)
    /\ WF_vars(\E c \in Clients : ApplyGet(c))
    /\ WF_vars(\E c \in Clients, visibility \in LiveVisibilities : LiveClaim(c, visibility))
    /\ WF_vars(AckOk)

(* ------------------------------ claims -------------------------------- *)
\* The step is ApplyGet of client c: its call stops awaiting the store, which has
\* applied the operation (the call does not throw).
GetStep(c) == Pending(c) /\ call'[c] = Idle /\ last'.ok

\* The leases (grants) on document d that a ping or an ack reading the clock at t honours.
ValidLeases(d, t) ==
    {g \in grants : g.msg.id = d._id /\ LeaseQuery(d, g.msg.ack, now(t))}

\* The lease of document d is running at instant t: visible_at is later than t, in
\* a year before 10000.
Running(d, t) == Instant(d.visible) > t /\ Instant(d.visible) < Y10K

\* C1: in every reachable state and for every message, at most one of the leases
\* handed out by get is valid (a ping or an ack with its token would succeed), whenever
\* the caller read the clock.
C1_OneValidLease ==
    \A d \in col : \A t \in Reads : Cardinality(ValidLeases(d, t)) <= 1

\* C1 witness: a message claimed twice, whose second lease is valid and whose first is not.
C1_Witness ==
    \E d \in col :
        /\ Cardinality({g \in grants : g.msg.id = d._id}) >= 2
        /\ Cardinality(ValidLeases(d, clock)) = 1

C3_Original ==
    [][\A c \in Clients : GetStep(c) =>
          \A m \in last'.ret : \A d \in col : d._id = m.id =>
             /\ "deleted" \notin DOMAIN d
             /\ Instant(d.visible) <= Instant(call[c].now)
             /\ Instant(d.visible) <= clock]_vars

\* C4: a successful ack raises done by exactly 1 and completes a message get had
\* returned with that token, and no get returns a completed message afterwards.
C4_CompletedNeverReturned ==
    [][/\ doneIds' # doneIds =>
            /\ done' = done + 1
            /\ last'.op = "ack" /\ last'.ok
            /\ \E g \in grants : g.msg.ack = last'.ack /\ doneIds' = doneIds \cup {g.msg.id}
       /\ \A c \in Clients : GetStep(c) => \A m \in last'.ret : m.id \notin doneIds]_vars

\* C4 witness: a get has returned null although a completed message, whose visible_at
\* is not after the call's now, is still in the store.
C4_Witness ==
    /\ last.op = "get"
    /\ last.ok
    /\ last.ret = {}
    /\ \E d \in col :
          DeletedQuery(d) /\ d._id \in doneIds /\ Instant(d.visible) <= Instant(last.now)

Returns(op) == last'.op = op /\ (last' # last \/ col' # col)

\* No lease with token a is running at instant t: every message that carries the
\* token is completed or has visible_at <= t.
Dead(a, t) ==
    \A d \in col : ("ack" \in DOMAIN d /\ d.ack = a) =>
        (Instant(d.visible) <= t \/ "deleted" \in DOMAIN d)

\* C6: a ping with a token whose lease has expired by the call's now, or whose message
\* is completed, throws and leaves the collection unchanged.
C6_PingDeadLeaseFails ==
    [][(Returns("ping") /\ Dead(last'.ack, Instant(last'.now)))
          => (~last'.ok /\ last'.ret = {} /\ col' = col)]_vars

\* C6 witness: a ping has thrown for the token of a message whose lease expired.
C6_Witness ==
    /\ last.op = "ping"
    /\ ~last.ok
    /\ \E d \in col :
          /\ "ack" \in DOMAIN d /\ d.ack = last.ack
          /\ "deleted" \notin DOMAIN d
          /\ Instant(d.visible) <= Instant(last.now)

\* C7: an ack succeeds only for a token carried by a message that is not completed
\* and whose visible_at is later than the call's now; with any other token it throws,
\* and a throwing ack leaves the collection and done unchanged; so does a second ack
\* with the same token.
C7_AckOnlyRunningLease ==
    [][Returns("ack") =>
          /\ last'.ok =>
                \E d \in col :
                   /\ "ack" \in DOMAIN d /\ d.ack = last'.ack
                   /\ "deleted" \notin DOMAIN d
                   /\ Running(d, Instant(last'.now))
                   /\ last'.ret = {d._id}
          /\ Dead(last'.ack, Instant(last'.now)) => ~last'.ok
          /\ ~last'.ok => (col' = col /\ done' = done)]_vars

\* C7 witness: a second ack with the token of a completed message has thrown.
C7_Witness ==
    /\ last.op = "ack"
    /\ ~last.ok
    /\ \E d \in col : "ack" \in DOMAIN d /\ d.ack = last.ack /\ DeletedQuery(d)

\* The token a belongs to a lease that a later claim of the same message replaced.
Superseded(a) ==
    \E g \in grants : \E h \in grants :
        g.msg.ack = a /\ h.msg.id = g.msg.id /\ h.msg.tries > g.msg.tries

\* C8: once a message has been claimed again, a ping or an ack with the token of the
\* earlier lease throws and leaves every message, the new lease included, unchanged.
C8_OldTokenFails ==
    [][((Returns("ping") \/ Returns("ack")) /\ Superseded(last'.ack))
          => (~last'.ok /\ col' = col)]_vars

\* C8 witness: a ping or an ack with a replaced token has thrown while the lease of
\* the new holder runs.
C8_Witness ==
    /\ last.op \in {"ping", "ack"}
    /\ ~last.ok
    /\ \E g \in grants : \E d \in col :
          /\ g.msg.ack = last.ack
          /\ d._id = g.msg.id
          /\ d.tries > g.msg.tries
          /\ "deleted" \notin DOMAIN d
          /\ Running(d, clock)

\* Message e is eligible for a call whose now is n.
Eligible(e, n) == "deleted" \notin DOMAIN e /\ Instant(e.visible) <= Instant(n)

C10_Original ==
    \A d \in col : "tries" \notin DOMAIN d =>
        /\ "ack" \notin DOMAIN d
        /\ "deleted" \notin DOMAIN d
        /\ Instant(d.visible) > clock => ~GetQuery(d, now(clock))

\* The step is a get that follows an add immediately: the handler that returned last
\* is the add, the call read the clock at the present instant and no other get is
\* awaiting the store.  (CallGet reads nothing of the collection, so the state is the
\* one reached by add, CallGet, ApplyGet in a row.)
AddThenGet(c) ==
    /\ GetStep(c)
    /\ last.op = "add"
    /\ Instant(call[c].now) = clock
    /\ \A k \in Clients \ {c} : call[k] = Idle

\* The messages inserted before d that no get has returned and the filter of a get
\* whose now is n matches.
OlderUnclaimed(d, n) ==
    {e \in col : e._id < d._id /\ "tries" \notin DOMAIN e /\ GetQuery(e, n)}

C12_CleanIdempotent ==
    [][clean =>
          /\ done' = 0
          /\ last.op = "clean" => (col' = col /\ total' = total /\ done' = done)]_vars

\* C12 witness: clean has returned last, every completed message is gone from the
\* collection and a message that is not completed is still there.
C12_Witness ==
    /\ last.op = "clean"
    /\ doneIds # {}
    /\ \A d \in col : d._id \notin doneIds
    /\ col # {}
    /\ done = 0

\* The successful claims that have returned message d.
ClaimsOf(d, G) == {g \in G : g.msg.id = d._id}

\* C13: after every step, tries of every stored message (none counting as 0) is the
\* number of gets that have returned the message; in a step tries of no message
\* decreases, and it changes only in the step in which a get returns that message,
\* by 1, to the value returned; a get that returns null changes no message.
C13_TriesCountsClaims ==
    [][/\ \A e \in col' : TriesKey(e) = Cardinality(ClaimsOf(e, grants'))
       /\ \A d \in col : \A e \in col' : e._id = d._id =>
             /\ TriesKey(e) >= TriesKey(d)
             /\ TriesKey(e) # TriesKey(d) =>
                   /\ \E c \in Clients : GetStep(c)
                   /\ last'.ret = {External(e)}
                   /\ TriesKey(e) = TriesKey(d) + 1
       /\ \A c \in Clients : (GetStep(c) /\ last'.ret = {}) => col' = col]_vars

\* C13 witness: a get has returned null while a message two gets had returned, with
\* tries 2, is in the store.
C13_Witness ==
    /\ last.op = "get"
    /\ last.ok
    /\ last.ret = {}
    /\ \E d \in col : TriesKey(d) = 2 /\ Cardinality(ClaimsOf(d, grants)) = 2

\* C14 as stated: a stored message has an ack field only while it is checked out,
\* that is while it is not completed and its visible_at is later than the clock.
C14_Original ==
    \A d \in col : "ack" \in DOMAIN d =>
        ("deleted" \notin DOMAIN d /\ Instant(d.visible) > clock)

\* C14 amended: a stored message has an ack field exactly when a get has returned it,
\* and the field holds the token of the latest get that returned it; the field stays
\* when the lease expires and when the message is completed, so every completed
\* message has one.
C14_TokenOfLatestClaim ==
    \A d \in col :
        /\ "ack" \in DOMAIN d <=> ClaimsOf(d, grants) # {}
        /\ "ack" \in DOMAIN d =>
              \E g \in ClaimsOf(d, grants) :
                 /\ g.msg.ack = d.ack
                 /\ \A h \in ClaimsOf(d, grants) : h.msg.tries <= g.msg.tries
        /\ "deleted" \in DOMAIN d => "ack" \in DOMAIN d

\* C14 witness: a completed message and a message whose lease has expired, available
\* again, both still carrying the token of their latest claim.
C14_Witness ==
    \E d \in col : \E e \in col :
        /\ DeletedQuery(d) /\ "ack" \in DOMAIN d
        /\ "ack" \in DOMAIN e /\ GetQuery(e, now(clock)) /\ Instant(e.visible) <= clock
        /\ \E g \in ClaimsOf(e, grants) : g.msg.ack = e.ack

\* The step is a ping that succeeded on document d and left e in its place.
PingOk(d, e) ==
    /\ Returns("ping")
    /\ last'.ok
    /\ last'.ret = {d._id}
    /\ e._id = d._id

C16_Original ==
    [][\A c \in Clients : ExpireGet(c) =>
          (last'.ok /\ last'.ret = {} /\ col' = col)]_vars

SizeSet(t) == {d \in col : GetQuery(d, now(t))}

InFlightSet(t) == {d \in col : InFlightQuery(d, now(t))}

DoneSet == {d \in col : DeletedQuery(d)}

\* C18: whatever the clock reading t at which the accessors are evaluated, the sets
\* size, inFlight and done count are pairwise disjoint, so the three counts add up to
\* at most total, and a completed message is counted by done and by neither size nor
\* inFlight.
C18_CountsDisjoint ==
    \A t \in 0..MaxClock :
        /\ SizeSet(t) \cap InFlightSet(t) = {}
        /\ SizeSet(t) \cap DoneSet = {}
        /\ InFlightSet(t) \cap DoneSet = {}
        /\ size(t) = Cardinality(SizeSet(t))
        /\ inFlight(t) = Cardinality(InFlightSet(t))
        /\ done = Cardinality(DoneSet)
        /\ size(t) + inFlight(t) + done <= total
        /\ \A d \in col : "deleted" \in DOMAIN d =>
              (d \in DoneSet /\ d \notin SizeSet(t) /\ d \notin InFlightSet(t))

\* C18 witness: of two stored messages one is in flight and one is completed, the
\* completed one still carrying its token and a visible_at later than the clock.
C18_Witness ==
    /\ total = 2
    /\ inFlight(clock) = 1
    /\ done = 1
    /\ size(clock) = 0
    /\ \E d \in DoneSet : "ack" \in DOMAIN d /\ StrGt(d.visible, now(clock))

\* The ids of the stored messages.
Ids(C) == {d._id : d \in C}

\* C19: in every step a stored message stays in the store, with its id and payload,
\* unless the step is a clean and the message is completed; a clean removes all the
\* completed messages and changes no other message; no other step lowers total; and
\* after every step each message ever added is in the store or is one an ack completed.
C19_NoMessageLost ==
    [][/\ \A d \in col :
             \/ \E e \in col' : e._id = d._id /\ e.payload = d.payload
             \/ Returns("clean") /\ DeletedQuery(d) /\ d._id \in doneIds
       /\ Returns("clean") =>
             /\ \A d \in col : ~DeletedQuery(d) => d \in col'
             /\ \A e \in col' : e \in col /\ ~DeletedQuery(e)
       /\ ~Returns("clean") => total' >= total
       /\ Cardinality(Ids(col')) = total'
       /\ \A i \in 1..(nextId' - 1) : i \in Ids(col') \/ i \in doneIds']_vars

\* C19 witness: clean has returned last; of the two messages added, the completed one
\* is gone and the one in flight is still in the store.
C19_Witness ==
    /\ last.op = "clean"
    /\ nextId = 3
    /\ total = 1
    /\ \E i \in doneIds : i \notin Ids(col)
    /\ \E d \in col : InFlightQuery(d, now(clock)) /\ d._id \notin doneIds

\* Message i is in flight, on a lease that ends while the clock of the model runs.
Leased(i) ==
    \E d \in col :
        d._id = i /\ InFlightQuery(d, now(clock)) /\ Instant(d.visible) <= MaxClock

\* Message i is completed, or the last handler to return is a ping that renewed it, or
\* the filter of get matches it again.
Released(i) ==
    \/ i \in doneIds
    \/ last.op = "ping" /\ last.ok /\ last.ret = {i}
    \/ \E d \in col : d._id = i /\ GetQuery(d, now(clock))

====
